---- MODULE Spec2Model ----
(***************************************************************************)
(* Model of the conversation engine (ConversationEngine) and of the remote *)
(* generator adapter (LLMService) of the Historical-AI-Chatbot server.     *)
(*                                                                         *)
(* Text is a sequence of one-character strings, so that substring search,  *)
(* trimming, tokenizing and edit distance are computed as the code does.   *)
(* Scores are fixed-point numbers in units of 1/SCALE.  Timestamps         *)
(* (new Date()) are never read by the engine and are left out of the       *)
(* session and message records.                                            *)
(***************************************************************************)
EXTENDS Integers, Sequences, FiniteSets, TLC

(***************************************************************************)
(* Bounds of the model.                                                    *)
(***************************************************************************)
\* total number of processMessage calls in one behaviour
MaxTurns == 2

\* number of turns of the one conversation that is followed on its own
MaxLocalTurns == 5

\* calls of processMessage in a conversation on a given document
MaxContentTurns == 3

\* steps of the clock while the rate limiter is followed
MaxTicks == 2

\* requests of the second session while the rate limiter is followed
MaxOtherRequests == 2

(***************************************************************************)
(* Text helpers (JavaScript String methods).                               *)
(***************************************************************************)
NoValue == "undefined"

\* the value `undefined` where a text is expected (an index past the end of
\* an array)
UndefinedText == <<NoValue>>

\* String.prototype.toLowerCase over the model's alphabet
LowerChar(c) ==
    CASE c = "H" -> "h"
      [] c = "L" -> "l"
      [] OTHER -> c

ToLower(s) == [i \in 1..Len(s) |-> LowerChar(s[i])]

\* String.prototype.includes
Includes(hay, needle) ==
    \E k \in 0..(Len(hay) - Len(needle)) :
        \A j \in 1..Len(needle) : hay[k + j] = needle[j]

\* Array.prototype.includes on a sequence
SeqIncludes(seq, x) == \E i \in 1..Len(seq) : seq[i] = x

\* white space as String.prototype.trim sees it
IsSpace(c) == c = " "

\* the characters natural.WordTokenizer splits on (every character that is
\* not a letter, a digit or an underscore), within the model's alphabet
NonWordChars == {" ", ".", "!", "?", ","}

\* split s on every character of seps, keeping empty pieces
RECURSIVE SplitFrom(_, _, _, _)
SplitFrom(s, i, cur, seps) ==
    IF i > Len(s) THEN <<cur>>
    ELSE IF s[i] \in seps THEN <<cur>> \o SplitFrom(s, i + 1, <<>>, seps)
    ELSE SplitFrom(s, i + 1, Append(cur, s[i]), seps)

\* String.prototype.split(' ')
SplitOnSpace(s) == SplitFrom(s, 1, <<>>, {" "})

\* tokenizer.tokenize: the non-empty maximal runs of word characters
Tokenize(s) ==
    SelectSeq(SplitFrom(s, 1, <<>>, NonWordChars), LAMBDA w : Len(w) > 0)

\* String.prototype.trim
RECURSIVE TrimLeft(_)
TrimLeft(s) ==
    IF Len(s) > 0 /\ IsSpace(s[1]) THEN TrimLeft(Tail(s)) ELSE s

RECURSIVE TrimRight(_)
TrimRight(s) ==
    IF Len(s) > 0 /\ IsSpace(s[Len(s)])
    THEN TrimRight(SubSeq(s, 1, Len(s) - 1)) ELSE s

Trim(s) == TrimRight(TrimLeft(s))

\* Array.prototype.slice(-n)
SliceLast(seq, n) ==
    IF Len(seq) <= n THEN seq ELSE SubSeq(seq, Len(seq) - n + 1, Len(seq))

Min2(a, b) == IF a < b THEN a ELSE b

Min3(a, b, c) == Min2(a, Min2(b, c))

(***************************************************************************)
(* Conversation content (data/malcolmx-conversation.json is loaded at      *)
(* startup; the records below have the shape of ConversationNode and Topic *)
(* and follow the README's example node).  An absent optional list is the  *)
(* empty list, an absent priority is 0 (both are skipped by the code's     *)
(* truthiness tests in the same way).  priority is in tenths.              *)
(***************************************************************************)
\* fixed-point unit of a score: 1.0 is SCALE
SCALE == 1000

T_hello == <<"h", "e", "l", "l", "o">>
T_your_life == <<"y", "o", "u", "r", " ", "l", "i", "f", "e">>
T_born == <<"b", "o", "r", "n">>
T_freedom == <<"f", "r", "e", "e", "d", "o", "m">>
T_nation == <<"n", "a", "t", "i", "o", "n">>
R_g1 == <<"G", "1", ".">>
R_a1 == <<"A", "1", ".">>
R_c1 == <<"C", "1", ".">>
R_c2 == <<"C", "2", ".">>
R_h1 == <<"H", "1", ".">>
R_n1 == <<"N", "1", ".">>
R_d1 == <<"D", "1", ".">>
R_d2 == <<"D", "2", ".">>

Nodes == <<
    [id |-> "greeting", responses |-> <<R_g1>>, triggers |-> <<T_hello>>,
     keywords |-> <<>>, context |-> <<>>,
     nextNodes |-> <<"about_malcolm">>, priority |-> 15],
    [id |-> "about_malcolm", responses |-> <<R_a1>>,
     triggers |-> <<T_your_life>>, keywords |-> <<T_born>>,
     context |-> <<>>, nextNodes |-> <<>>, priority |-> 5],
    [id |-> "civil_rights", responses |-> <<R_c1, R_c2>>,
     triggers |-> <<T_freedom>>, keywords |-> <<>>, context |-> <<>>,
     nextNodes |-> <<>>, priority |-> 0],
    [id |-> "human_rights", responses |-> <<R_h1>>,
     triggers |-> <<T_freedom>>, keywords |-> <<>>, context |-> <<>>,
     nextNodes |-> <<>>, priority |-> 0],
    [id |-> "nation_of_islam", responses |-> <<R_n1>>, triggers |-> <<>>,
     keywords |-> <<T_nation>>, context |-> <<>>,
     nextNodes |-> <<"default">>, priority |-> 1],
    [id |-> "default", responses |-> <<R_d1, R_d2>>, triggers |-> <<>>,
     keywords |-> <<>>, context |-> <<"asked_unknown">>,
     nextNodes |-> <<>>, priority |-> 0] >>

Topics == <<
    [id |-> "personal_history", nodes |-> <<"about_malcolm">>],
    [id |-> "civil_rights_movement",
     nodes |-> <<"civil_rights", "human_rights">>],
    [id |-> "philosophy", nodes |-> <<"civil_rights">>] >>

NodeIds == {Nodes[i].id : i \in 1..Len(Nodes)}

\* data.nodes.find(n => n.id === id): the position of the first node with
\* that id, 0 when find returns undefined
FindNode(id) ==
    IF \E i \in 1..Len(Nodes) : Nodes[i].id = id
    THEN CHOOSE i \in 1..Len(Nodes) :
            /\ Nodes[i].id = id
            /\ \A j \in 1..(i - 1) : Nodes[j].id # id
    ELSE 0

\* user messages the model draws from: one that contains a trigger, one that
\* matches nothing
M_hello == <<"H", "e", "l", "l", "o">>
M_none == <<"z", "z", "?">>

Messages == {M_hello, M_none}

\* further messages, for a single conversation followed over more turns: one
\* that contains the trigger two nodes share, one that contains a keyword
M_freedom == <<"f", "r", "e", "e", "d", "o", "m">>
M_nation == <<"n", "a", "t", "i", "o", "n">>

LocalMessages == Messages \cup {M_freedom, M_nation}

\* the message the createSession controller sends for a new session
\* (chatController line 250)
GreetingMessage == <<"h", "e", "l", "l", "o">>

\* every message of the model
KnownMessages == LocalMessages \cup {GreetingMessage}

(***************************************************************************)
(* Candidate scorer (findBestNodeWithScore).                               *)
(***************************************************************************)
\* getEditDistance: the dynamic-programming matrix of the code
EditDistance(str1, str2) ==
    LET matrix[i \in 0..Len(str2), j \in 0..Len(str1)] ==
            IF i = 0 THEN j
            ELSE IF j = 0 THEN i
            ELSE IF str2[i] = str1[j] THEN matrix[i - 1, j - 1]
            ELSE Min3(matrix[i - 1, j - 1] + 1,
                      matrix[i, j - 1] + 1,
                      matrix[i - 1, j] + 1)
    IN  matrix[Len(str2), Len(str1)]

\* calculateSimilarity(str1, str2) > 0.7, in integers:
\* (longer.length - d) / longer.length > 0.7
SimilarityAbove07(str1, str2) ==
    LET longer  == IF Len(str1) > Len(str2) THEN str1 ELSE str2
        shorter == IF Len(str1) > Len(str2) THEN str2 ELSE str1
    IN  IF Len(longer) = 0 THEN TRUE
        ELSE 10 * (Len(longer) - EditDistance(longer, shorter))
                 > 7 * Len(longer)

\* lines 352-366: 20 for a trigger the message contains, else 10 when a word
\* of the trigger longer than 3 characters occurs in the message
TriggerScore(node, userMessage) ==
    LET messageLower == ToLower(userMessage)
        One(trigger) ==
            LET triggerLower == ToLower(trigger)
                words == SplitOnSpace(triggerLower)
            IN  IF Includes(messageLower, triggerLower) THEN 20
                ELSE IF \E w \in 1..Len(words) :
                            Includes(messageLower, words[w]) /\ Len(words[w]) > 3
                     THEN 10
                     ELSE 0
        Sum[k \in 0..Len(node.triggers)] ==
            IF k = 0 THEN 0 ELSE Sum[k - 1] + One(node.triggers[k])
    IN  Sum[Len(node.triggers)]

\* lines 369-386: 7 for every keyword some token longer than 2 characters
\* is contained in, contains, or is similar to
KeywordScore(node, userMessage) ==
    LET tokens == Tokenize(ToLower(userMessage))
        One(keyword) ==
            LET keywordLower == ToLower(keyword)
            IN  IF \E t \in 1..Len(tokens) :
                       /\ Len(tokens[t]) > 2
                       /\ \/ Includes(keywordLower, tokens[t])
                          \/ Includes(tokens[t], keywordLower)
                          \/ SimilarityAbove07(tokens[t], keywordLower)
                THEN 7 ELSE 0
        Sum[k \in 0..Len(node.keywords)] ==
            IF k = 0 THEN 0 ELSE Sum[k - 1] + One(node.keywords[k])
    IN  Sum[Len(node.keywords)]

\* the document initializeTfIdf indexes for a node, as the set of terms the
\* index holds: the words of its triggers and keywords (its context names are
\* indexed too, and no message of the model contains one)
DocTerms(node) ==
    {ToLower(w) : w \in
        UNION ( {{Tokenize(node.triggers[k])[x] :
                    x \in 1..Len(Tokenize(node.triggers[k]))} :
                    k \in 1..Len(node.triggers)}
                \cup
                {{Tokenize(node.keywords[k])[x] :
                    x \in 1..Len(Tokenize(node.keywords[k]))} :
                    k \in 1..Len(node.keywords)} )}

\* tfidf.tfidfs(userMessage)[index] * 15 in fixed point.  The measure of the
\* natural library is a sum over the message's terms of tf * idf, and idf is
\* positive for every corpus, so the measure is positive exactly when a term
\* of the message occurs in the node's document; each such term stands for
\* one and a half points here.
TfIdfScore(index, userMessage) ==
    LET terms == Tokenize(ToLower(userMessage))
        hits == {t \in 1..Len(terms) : terms[t] \in DocTerms(Nodes[index])}
    IN  Cardinality(hits) * (SCALE + SCALE \div 2)

\* the part of a node's score that depends on the message alone (triggers,
\* keywords, TF-IDF), for every message of the model and every node
MessageScore ==
    [m \in KnownMessages |->
        [i \in 1..Len(Nodes) |->
            (TriggerScore(Nodes[i], m) + KeywordScore(Nodes[i], m)) * SCALE
              + TfIdfScore(i, m)]]

\* a score without the penalty for recently visited nodes
NodeScoreNoRecency(index, userMessage, session) ==
    LET node == Nodes[index]
        ctxHits == {k \in 1..Len(node.context) :
                        node.context[k] \in DOMAIN session.context}
        currentNode == FindNode(session.currentNode)
        flow == IF /\ session.currentNode # ""
                   /\ currentNode # 0
                   /\ SeqIncludes(Nodes[currentNode].nextNodes, node.id)
                THEN 6 ELSE 0
        base == MessageScore[userMessage][index]
                + 5 * Cardinality(ctxHits) * SCALE
                + flow * SCALE
        prio == IF node.priority # 0 THEN (base * node.priority) \div 10
                ELSE base
    IN  IF node.id = "default" /\ prio > 0 THEN prio \div 10 ELSE prio

\* one node's final score for a message in a session (lines 349-425)
NodeScore(index, userMessage, session) ==
    LET node == Nodes[index]
        ctxHits == {k \in 1..Len(node.context) :
                        node.context[k] \in DOMAIN session.context}
        currentNode == FindNode(session.currentNode)
        flow == IF /\ session.currentNode # ""
                   /\ currentNode # 0
                   /\ SeqIncludes(Nodes[currentNode].nextNodes, node.id)
                THEN 6 ELSE 0
        base == MessageScore[userMessage][index]
                + 5 * Cardinality(ctxHits) * SCALE
                + flow * SCALE
        prio == IF node.priority # 0 THEN (base * node.priority) \div 10
                ELSE base
        recent == IF SeqIncludes(SliceLast(session.visitedNodes, 3), node.id)
                  THEN (prio * 7) \div 10 ELSE prio
    IN  IF node.id = "default" /\ recent > 0 THEN recent \div 10 ELSE recent

\* a forEach that lets a later node take over on an equal score
RECURSIVE BestFromLastOfEqual(_, _, _, _)
BestFromLastOfEqual(k, best, userMessage, session) ==
    IF k > Len(Nodes) THEN best
    ELSE LET score == NodeScore(k, userMessage, session)
         IN  BestFromLastOfEqual(k + 1,
                      IF score >= best.score /\ score > 0
                      THEN [node |-> k, score |-> score]
                      ELSE best,
                      userMessage, session)

\* the forEach of lines 348-431 from node k on, with the best match so far
RECURSIVE BestFrom(_, _, _, _)
BestFrom(k, best, userMessage, session) ==
    IF k > Len(Nodes) THEN best
    ELSE LET score == NodeScore(k, userMessage, session)
         IN  BestFrom(k + 1,
                      IF score > best.score THEN [node |-> k, score |-> score]
                      ELSE best,
                      userMessage, session)

\* findBestNodeWithScore: the winning node (its position) and its score
FindBestNodeWithScore(userMessage, session) ==
    BestFrom(1, [node |-> Len(Nodes), score |-> 0], userMessage, session)

(***************************************************************************)
(* Response selector and context updater.                                  *)
(***************************************************************************)
\* a selection among all the replies of the node
SelectResponseAny(node, session) ==
    IF Len(node.responses) = 0 THEN {UndefinedText}
    ELSE {node.responses[i] : i \in 1..Len(node.responses)}

\* selectResponse: the replies Math.random may pick
SelectResponse(node, session) ==
    LET responses == node.responses
        botMsgs == SelectSeq(session.conversationHistory,
                             LAMBDA msg : msg.role = "bot")
        last3 == SliceLast(botMsgs, 3)
        recentResponses == {last3[i].content : i \in 1..Len(last3)}
        availableResponses ==
            SelectSeq(responses, LAMBDA resp : resp \notin recentResponses)
        selectedResponses ==
            IF Len(availableResponses) > 0 THEN availableResponses
            ELSE responses
    IN  IF Len(selectedResponses) = 0 THEN {UndefinedText}
        ELSE {selectedResponses[i] : i \in 1..Len(selectedResponses)}

\* polarity lexicon of the sentiment analyzer (AFINN), for the model's words
Afinn(token) == IF token = <<"g", "o", "o", "d">> THEN 3 ELSE 0

\* analyzeSentiment: the mean polarity of the tokens against +-0.2
AnalyzeSentiment(text) ==
    LET tokens == Tokenize(ToLower(text))
        Sum[k \in 0..Len(tokens)] ==
            IF k = 0 THEN 0 ELSE Sum[k - 1] + Afinn(tokens[k])
        total == Sum[Len(tokens)]
    IN  IF Len(tokens) = 0 THEN "neutral"
        ELSE IF 10 * total > 2 * Len(tokens) THEN "positive"
        ELSE IF 10 * total < -2 * Len(tokens) THEN "negative"
        ELSE "neutral"

\* Map.prototype.set
MapSet(map, key, value) ==
    [k \in (DOMAIN map) \cup {key} |-> IF k = key THEN value ELSE map[k]]

RECURSIVE SetFlags(_, _, _)
SetFlags(map, keys, k) ==
    IF k > Len(keys) THEN map
    ELSE SetFlags(MapSet(map, keys[k], TRUE), keys, k + 1)

\* data.topics.find(topic => topic.nodes.includes(id)): the position of the
\* first such topic, 0 when find returns undefined
FindTopic(id) ==
    IF \E i \in 1..Len(Topics) : SeqIncludes(Topics[i].nodes, id)
    THEN CHOOSE i \in 1..Len(Topics) :
            /\ SeqIncludes(Topics[i].nodes, id)
            /\ \A j \in 1..(i - 1) : ~SeqIncludes(Topics[j].nodes, id)
    ELSE 0

\* updateContext (lines 600-623)
UpdateContext(session, node, userMessage) ==
    LET flagged == SetFlags(session.context, node.context, 1)
        relatedTopic == FindTopic(node.id)
        topics == IF /\ relatedTopic # 0
                     /\ ~SeqIncludes(session.topicsDiscussed,
                                     Topics[relatedTopic].id)
                  THEN Append(session.topicsDiscussed, Topics[relatedTopic].id)
                  ELSE session.topicsDiscussed
    IN  [session EXCEPT
            !.context = MapSet(flagged, "lastSentiment",
                               AnalyzeSentiment(userMessage)),
            !.topicsDiscussed = topics]

(***************************************************************************)
(* Remote generator adapter (LLMService).                                  *)
(***************************************************************************)
\* the budget of cleanResponse, in characters
MaxResponseChars == 500

\* the second argument of generateWithRetry at its only call
MaxRetries == 2

IsTerminator(c) == c \in {".", "!", "?"}

\* the first position from i on that holds a terminator (when wanted) or a
\* character other than a terminator (when not), 0 when there is none
NextAt(s, i, wanted) ==
    LET found == {j \in i..Len(s) : IsTerminator(s[j]) = wanted}
    IN  IF found = {} THEN 0
        ELSE CHOOSE j \in found : \A k \in found : j <= k

\* text.match(/[^.!?]+[.!?]+/g) || []: the matches from position i on, each
\* a run of characters other than terminators and the run of terminators
\* after it
RECURSIVE SentencesFrom(_, _)
SentencesFrom(s, i) ==
    LET start == NextAt(s, i, FALSE)
        stop == IF start = 0 THEN 0 ELSE NextAt(s, start, TRUE)
        after == IF stop = 0 THEN 0 ELSE NextAt(s, stop, FALSE)
        last == IF after = 0 THEN Len(s) ELSE after - 1
    IN  IF start = 0 \/ stop = 0 THEN <<>>
        ELSE <<SubSeq(s, start, last)>> \o SentencesFrom(s, last + 1)

Sentences(s) == SentencesFrom(s, 1)

\* the loop of lines 140-144: sentences are added while the total fits
RECURSIVE TruncateTo(_, _, _)
TruncateTo(sentences, k, truncated) ==
    IF k > Len(sentences) THEN truncated
    ELSE IF Len(truncated) + Len(sentences[k]) > MaxResponseChars
         THEN truncated
    ELSE TruncateTo(sentences, k + 1, truncated \o sentences[k])

\* cleanResponse (lines 133-149)
CleanResponse(text) ==
    LET cleaned == Trim(text)
        truncated == TruncateTo(Sentences(cleaned), 1, <<>>)
    IN  IF Len(cleaned) > MaxResponseChars
        THEN IF Len(truncated) > 0 THEN truncated
             ELSE SubSeq(cleaned, 1, MaxResponseChars) \o <<".", ".", ".">>
        ELSE cleaned

\* what one attempt (groq.chat.completions.create) can end with.  A failure
\* carries the HTTP status (0: none, a network failure) and whether its
\* message contains 'API key' or 'rate limit'.
ApiErrors ==
    { [status |-> 401, apiKeyText |-> FALSE, rateLimitText |-> FALSE],
      [status |-> 429, apiKeyText |-> FALSE, rateLimitText |-> FALSE],
      [status |-> 429, apiKeyText |-> TRUE,  rateLimitText |-> FALSE],
      [status |-> 500, apiKeyText |-> FALSE, rateLimitText |-> FALSE],
      [status |-> 0,   apiKeyText |-> FALSE, rateLimitText |-> TRUE] }

NoError == [status |-> -1, apiKeyText |-> FALSE, rateLimitText |-> FALSE]

\* the error `throw new Error('Invalid response from LLM')` of line 79
InvalidResponseError ==
    [status |-> 0, apiKeyText |-> FALSE, rateLimitText |-> FALSE]

\* completion.choices[0]?.message?.content of a successful attempt; the empty
\* text stands for every falsy content ('', undefined, null)
RawOutputs ==
    { <<" ", "O", "k", ".", " ">>, <<>>, <<" ", " ">> }

\* a classification by the HTTP status alone
ClassifyByStatus(error) ==
    IF error.status = 401 THEN "LLM API key is invalid"
    ELSE IF error.status = 429 THEN "LLM rate limit exceeded"
    ELSE "LLM service unavailable"

\* the catch block of generateResponse (lines 84-95): the error it throws
ClassifyError(error) ==
    IF error.apiKeyText \/ error.status = 401 THEN "LLM API key is invalid"
    ELSE IF error.status = 429 \/ error.rateLimitText
         THEN "LLM rate limit exceeded"
    ELSE "LLM service unavailable"

\* a retry loop that gives up at once on 401 only
IsFatal401Only(error) == error.status = 401

\* line 118: the failures generateWithRetry does not retry
IsFatalStatus(error) == error.status = 401 \/ error.status = 429

\* line 124: the wait after failed attempt `attempt`, in milliseconds
RECURSIVE Pow2(_)
Pow2(n) == IF n = 0 THEN 1 ELSE 2 * Pow2(n - 1)

\* a backoff that starts at two seconds
WaitTimeFromTwo(attempt) == Pow2(attempt + 1) * 1000

WaitTime(attempt) == Pow2(attempt) * 1000

\* one call of generateResponse: where it is (await: an attempt is under
\* way, backoff: the timer of line 125 runs), the loop counter and lastError
\* of generateWithRetry, the time spent in backoff waits, and how it ended:
\* the text returned, or the error the catch block of line 84 caught and the
\* message of the error it threw
IdleCall ==
    [pc |-> "idle", attempt |-> 0, lastError |-> NoError, waited |-> 0,
     text |-> <<>>, caught |-> NoError, message |-> ""]

\* generateResponse up to its first suspension (lines 42-74 and 104-106)
GenerateStart(enabled) ==
    IF ~enabled
    THEN [IdleCall EXCEPT
            !.pc = "thrown",
            !.message = "LLM Service is not enabled or not properly configured"]
    ELSE [IdleCall EXCEPT !.pc = "await"]

\* an attempt returns a completion whose content is raw (lines 113, 76-83)
AttemptReturned(call, raw) ==
    IF raw = <<>>
    THEN [call EXCEPT !.pc = "thrown", !.caught = InvalidResponseError,
                      !.message = ClassifyError(InvalidResponseError)]
    ELSE [call EXCEPT !.pc = "returned", !.text = CleanResponse(raw)]

\* an attempt fails with error (lines 114-130, then the catch of 84-95)
AttemptFailed(call, error) ==
    LET c == [call EXCEPT !.lastError = error]
    IN  IF IsFatalStatus(error)
        THEN [c EXCEPT !.pc = "thrown", !.caught = error,
                       !.message = ClassifyError(error)]
        ELSE IF c.attempt < MaxRetries
             THEN [c EXCEPT !.pc = "backoff",
                            !.waited = @ + WaitTime(c.attempt)]
             ELSE [c EXCEPT !.pc = "thrown", !.caught = c.lastError,
                            !.message = ClassifyError(c.lastError)]

\* the timer of line 125 fires: the loop goes on to the next attempt
BackoffDone(call) == [call EXCEPT !.pc = "await", !.attempt = @ + 1]

(***************************************************************************)
(* State.                                                                  *)
(***************************************************************************)
SessionIds == {"s1", "s2"}

\* invocations of processMessage suspended in the remote call at one time
TurnIds == 1..MaxTurns

\* session objects: the Map `sessions` and every suspended invocation of
\* processMessage hold references to them
ObjIds == 1..(Cardinality(SessionIds) + Cardinality(TurnIds))

\* LLM_CONFIDENCE_THRESHOLD: the default '3.0' and one other setting
Thresholds == {3 * SCALE, 6 * SCALE}

VARIABLES
    env,                  \* LLM_FALLBACK_ENABLED, GROQ_API_KEY, new Groq throws
    llm,                  \* LLMService: enabled, groq (TRUE: a client)
    confidenceThreshold,  \* ConversationEngine.confidenceThreshold
    sessions,             \* ConversationEngine.sessions: id -> object, 0: none
    heap,                 \* the session objects (ConversationState)
    turn,                 \* the suspended invocations of processMessage
    turnsStarted,         \* number of processMessage calls so far
    completed,            \* per id: turns completed since create/reset
    overlapped,           \* per id: two of its turns were in progress at once
    errorLog,             \* the errors console.error of line 309 has logged
    lastOp,               \* the operation the last step performed
    adapter,              \* one generateResponse call observed on its own
    limiter               \* the rate limiter in front of sendMessage

vars == <<env, llm, confidenceThreshold, sessions, heap, turn, turnsStarted,
          completed, overlapped, errorLog, lastOp, adapter, limiter>>

EmptyMap == [k \in {} |-> TRUE]

\* a creation that keeps what a session has gathered so far
UsedSession(sessionId) ==
    [sessionId |-> sessionId, currentNode |-> "default",
     visitedNodes |-> <<"default">>, conversationHistory |-> <<>>,
     context |-> [k \in {"asked_unknown"} |-> TRUE],
     topicsDiscussed |-> <<>>]

\* the object createSession builds (lines 258-266)
FreshSession(sessionId) ==
    [sessionId |-> sessionId, currentNode |-> "greeting",
     visitedNodes |-> <<>>, conversationHistory |-> <<>>,
     context |-> EmptyMap, topicsDiscussed |-> <<>>]

\* a heap cell no reference leads to
FreeObj == FreshSession(NoValue)

\* a suspended invocation of processMessage: its locals that are live across
\* the await of line 303, and the generateResponse call it waits for
IdleTurn ==
    [sessionId |-> "", obj |-> 0, node |-> 0, score |-> 0, call |-> IdleCall]

InFlight(tr) == tr.call.pc \in {"await", "backoff"}

\* some invocation for session id s is suspended in the remote call
SomeTurnInFlight(s) ==
    \E t \in TurnIds : InFlight(turn[t]) /\ turn[t].sessionId = s

\* what the last step did: the operation and the session id it was for; for
\* a step of a turn the match (node, score) and whether the gate chose the
\* remote generator; for a step in which processMessage returned, the reply,
\* usedFallback, and whether the remote call had failed
NoOp ==
    [op |-> "init", sessionId |-> "", node |-> 0, score |-> 0,
     remote |-> FALSE, returned |-> FALSE, failed |-> FALSE,
     usedFallback |-> FALSE, response |-> <<>>]

\* the objects some reference leads to
Referenced(sess, tr) ==
    ({sess[s] : s \in SessionIds} \cup {tr[t].obj : t \in TurnIds}) \ {0}

\* `new`: the first cell no reference leads to
NewObj(sess, tr) ==
    CHOOSE o \in ObjIds \ Referenced(sess, tr) :
        \A p \in ObjIds \ Referenced(sess, tr) : o <= p

\* garbage collection: an unreferenced object is gone
Collect(h, sess, tr) ==
    [o \in ObjIds |-> IF o \in Referenced(sess, tr) THEN h[o] ELSE FreeObj]

\* a constructor that builds the client without looking at the key
LLMServiceInitNoKeyCheck(flag, hasKey, ctorThrows) ==
    IF flag
    THEN IF ctorThrows THEN [enabled |-> FALSE, groq |-> FALSE]
         ELSE [enabled |-> TRUE, groq |-> TRUE]
    ELSE [enabled |-> FALSE, groq |-> FALSE]

\* the LLMService constructor (lines 12-32); ctorThrows: new Groq throws
LLMServiceInit(flag, hasKey, ctorThrows) ==
    IF flag /\ hasKey
    THEN IF ctorThrows THEN [enabled |-> FALSE, groq |-> FALSE]
         ELSE [enabled |-> TRUE, groq |-> TRUE]
    ELSE IF flag /\ ~hasKey THEN [enabled |-> FALSE, groq |-> FALSE]
    ELSE [enabled |-> flag, groq |-> FALSE]

\* a service that switches itself off after the first logged failure
IsEnabledUntilFailure == llm.enabled /\ llm.groq /\ errorLog = {}

\* isEnabled (lines 34-36)
IsEnabled == llm.enabled /\ llm.groq

\* a gate that also goes remote at the threshold itself
UseRemoteAtOrBelow(score) == score <= confidenceThreshold /\ IsEnabled

\* the gate of line 300
UseRemote(score) == score < confidenceThreshold /\ IsEnabled

\* the Message records of lines 287-291 and 330-336
UserMsg(userMessage) ==
    [role |-> "user", content |-> userMessage, nodeId |-> NoValue,
     usedFallback |-> NoValue]

\* a bot message that is always attributed to the remote generator
BotMsgAlwaysRemote(response, usedFallback, node) ==
    [role |-> "bot", content |-> response, nodeId |-> "llm-fallback",
     usedFallback |-> TRUE]

BotMsg(response, usedFallback, node) ==
    [role |-> "bot", content |-> response,
     nodeId |-> IF usedFallback THEN "llm-fallback" ELSE Nodes[node].id,
     usedFallback |-> usedFallback]

\* the system prompt of lines 56-67
SystemPrompt == <<"You are Malcolm X">>

\* the messages generateResponse sends (lines 48-53 and 70-74)
RECURSIVE HistoryContext(_)
HistoryContext(msgs) ==
    IF msgs = <<>> THEN <<>>
    ELSE <<[role |-> IF Head(msgs).role = "user" THEN "user" ELSE "assistant",
            content |-> Head(msgs).content]>>
         \o HistoryContext(Tail(msgs))

BuildRequest(userMessage, conversationHistory) ==
    <<[role |-> "system", content |-> SystemPrompt]>>
    \o HistoryContext(SliceLast(conversationHistory, 8))
    \o <<[role |-> "user", content |-> userMessage]>>

\* one generateResponse call observed on its own: the call, the messages it
\* sends, the failures of its attempts in order, the attempts it has started
IdleAdapter ==
    [call |-> IdleCall, request |-> <<>>, failures |-> <<>>, attempts |-> 0]

\* the window and the quota of qualityBasedRateLimit
WindowMs == 60000

MaxRequests == 20

\* the step of the clock Date.now() reads
TickMs == 40000

\* the instants at which requests arrive
Instants == {k * TickMs : k \in 0..MaxTicks}

\* the middleware's module state: the clock, requestCounts (count 0: the Map
\* has no record for the id), and what has gone through it: per id and
\* instant the number of requests passed on to the handler
IdleLimiter ==
    [now |-> 0,
     requestCounts |-> [s \in SessionIds |-> [count |-> 0, timestamp |-> 0]],
     passed |-> [s \in SessionIds |-> [u \in Instants |-> 0]]]

Init ==
    /\ env \in {e \in [fallbackEnabled : BOOLEAN, hasApiKey : BOOLEAN,
                       groqThrows : BOOLEAN] :
                   e.groqThrows => e.fallbackEnabled /\ e.hasApiKey}
    /\ llm = LLMServiceInit(env.fallbackEnabled, env.hasApiKey, env.groqThrows)
    /\ confidenceThreshold \in Thresholds
    /\ sessions = [s \in SessionIds |-> 0]
    /\ heap = [o \in ObjIds |-> FreeObj]
    /\ turn = [t \in TurnIds |-> IdleTurn]
    /\ turnsStarted = 0
    /\ completed = [s \in SessionIds |-> 0]
    /\ overlapped = [s \in SessionIds |-> FALSE]
    /\ errorLog = {}
    /\ lastOp = NoOp
    /\ adapter = IdleAdapter
    /\ limiter = IdleLimiter

\* createSession (lines 257-269)
CreateSession(sid) ==
    LET o == NewObj([sessions EXCEPT ![sid] = 0], turn)
        sessions1 == [sessions EXCEPT ![sid] = o]
    IN  /\ sessions' = sessions1
        /\ heap' = Collect([heap EXCEPT ![o] = FreshSession(sid)],
                           sessions1, turn)
        /\ completed' = [completed EXCEPT ![sid] = 0]
        /\ lastOp' = [NoOp EXCEPT !.op = "create", !.sessionId = sid]
        /\ UNCHANGED <<env, llm, confidenceThreshold, turn, turnsStarted,
                       overlapped, errorLog, adapter,
                   limiter>>

\* a reset that clears the whole Map before it creates the session
ResetSessionClearingMap(sid) ==
    LET cleared == [s \in SessionIds |-> 0]
        o == NewObj(cleared, turn)
        sessions1 == [cleared EXCEPT ![sid] = o]
    IN  /\ sessions' = sessions1
        /\ heap' = Collect([heap EXCEPT ![o] = FreshSession(sid)],
                           sessions1, turn)
        /\ completed' = [completed EXCEPT ![sid] = 0]
        /\ lastOp' = [NoOp EXCEPT !.op = "reset", !.sessionId = sid]
        /\ UNCHANGED <<env, llm, confidenceThreshold, turn, turnsStarted,
                       overlapped, errorLog, adapter,
                   limiter>>

\* resetSession (lines 275-278): sessions.delete, then createSession
ResetSession(sid) ==
    LET deleted == [sessions EXCEPT ![sid] = 0]
        o == NewObj(deleted, turn)
        sessions1 == [deleted EXCEPT ![sid] = o]
    IN  /\ sessions' = sessions1
        /\ heap' = Collect([heap EXCEPT ![o] = FreshSession(sid)],
                           sessions1, turn)
        /\ completed' = [completed EXCEPT ![sid] = 0]
        /\ lastOp' = [NoOp EXCEPT !.op = "reset", !.sessionId = sid]
        /\ UNCHANGED <<env, llm, confidenceThreshold, turn, turnsStarted,
                       overlapped, errorLog, adapter,
                   limiter>>

\* the end of processMessage (lines 329-340) for an invocation tr that holds
\* session object o with contents session: the bot message is pushed, the
\* object is put into the Map under the invocation's id, the reply returned.
\* turn1 is the table of suspended invocations without this one, op the
\* record of the step.
Finish(turn1, tr, o, session, response, usedFallback, op) ==
    LET sessions1 == [sessions EXCEPT ![tr.sessionId] = o]
        session1 == [session EXCEPT !.conversationHistory =
                        Append(@, BotMsg(response, usedFallback, tr.node))]
    IN  /\ turn' = turn1
        /\ sessions' = sessions1
        /\ heap' = Collect([heap EXCEPT ![o] = session1], sessions1, turn1)
        /\ completed' = [completed EXCEPT ![tr.sessionId] = @ + 1]
        /\ lastOp' = [op EXCEPT !.returned = TRUE,
                                !.usedFallback = usedFallback,
                                !.response = response]

\* the catch block of lines 308-313 followed by the end of processMessage
FinishFailed(turn1, tr, o, session, error, op) ==
    /\ errorLog' = errorLog \cup {error}
    /\ \E response \in SelectResponse(Nodes[tr.node], session) :
          Finish(turn1, tr, o, session, response, FALSE,
                 [op EXCEPT !.failed = TRUE])

\* the error a generateResponse call threw, as line 309 logs it, with the
\* status of the failure behind it
Thrown(call) == [message |-> call.message, status |-> call.caught.status]

\* a continuation that makes the winner the current unit after a remote
\* reply too
ResumeUpdatingState(turn1, tr, op) ==
    IF tr.call.pc = "returned"
    THEN /\ Finish(turn1, tr, tr.obj,
                   [heap[tr.obj] EXCEPT !.currentNode = Nodes[tr.node].id],
                   tr.call.text, TRUE, op)
         /\ UNCHANGED errorLog
    ELSE FinishFailed(turn1, tr, tr.obj, heap[tr.obj], Thrown(tr.call), op)

\* lines 303-313 once the generateResponse call of invocation tr has ended
\* (call.pc is "returned" or "thrown")
Resume(turn1, tr, op) ==
    IF tr.call.pc = "returned"
    THEN /\ Finish(turn1, tr, tr.obj, heap[tr.obj], tr.call.text, TRUE, op)
         /\ UNCHANGED errorLog
    ELSE FinishFailed(turn1, tr, tr.obj, heap[tr.obj], Thrown(tr.call), op)

\* the slot a newly suspended invocation takes: the first one not in use
FreeSlot ==
    CHOOSE t \in TurnIds :
        /\ ~InFlight(turn[t])
        /\ \A u \in TurnIds : ~InFlight(turn[u]) => t <= u

\* a local update that pushes the winner onto visitedNodes on every visit
LocalUpdateAlwaysPushing(session, node, userMessage) ==
    UpdateContext(
        [session EXCEPT !.currentNode = node.id,
                        !.visitedNodes = Append(@, node.id)],
        node, userMessage)

\* lines 315-326: the session after the local update
LocalUpdate(session, node, userMessage) ==
    UpdateContext(
        [session EXCEPT
            !.currentNode = node.id,
            !.visitedNodes = IF SeqIncludes(@, node.id) THEN @
                             ELSE Append(@, node.id)],
        node, userMessage)

\* the record of the first step of invocation tr
StartOp(tr, remote) ==
    [NoOp EXCEPT !.op = "start", !.sessionId = tr.sessionId,
                 !.node = tr.node, !.score = tr.score, !.remote = remote]

\* lines 301-313: generateResponse is called for invocation tr, which holds
\* session object o with contents session; it is suspended in the first
\* attempt, or the call has thrown already and the catch block runs
Suspend(o, session, tr, op) ==
    IF tr.call.pc = "await"
    THEN /\ \E t \in TurnIds : ~InFlight(turn[t])
         /\ turn' = [turn EXCEPT ![FreeSlot] = tr]
         /\ sessions' = [sessions EXCEPT ![tr.sessionId] = o]
         /\ heap' = Collect([heap EXCEPT ![o] = session],
                            [sessions EXCEPT ![tr.sessionId] = o],
                            [turn EXCEPT ![FreeSlot] = tr])
         /\ lastOp' = op
         /\ UNCHANGED <<completed, errorLog>>
    ELSE FinishFailed(turn, tr, o, session, Thrown(tr.call), op)

\* lines 325-340: the reply is selected from the winning node, session being
\* the session after the local update
Local(o, session, tr, op) ==
    /\ \E response \in SelectResponse(Nodes[tr.node], session) :
          Finish(turn, tr, o, session, response, FALSE, op)
    /\ UNCHANGED errorLog

\* lines 296-327: the gate, for the match held in tr
Gated(userMessage, o, session, tr) ==
    IF UseRemote(tr.score)
    THEN Suspend(o, session, [tr EXCEPT !.call = GenerateStart(IsEnabled)],
                 StartOp(tr, TRUE))
    ELSE Local(o, LocalUpdate(session, Nodes[tr.node], userMessage), tr,
               StartOp(tr, FALSE))

\* the locals of processMessage once the match is found (line 295)
MatchedTurn(sid, o, matchResult) ==
    [sessionId |-> sid, obj |-> o, node |-> matchResult.node,
     score |-> matchResult.score, call |-> IdleCall]

\* a scorer that records its winner in the session it is given
ScoredTouchingSession(sid, userMessage, o, session) ==
    LET pushed == [session EXCEPT !.conversationHistory =
                      Append(@, UserMsg(userMessage))]
        matchResult == FindBestNodeWithScore(userMessage, pushed)
    IN  Gated(userMessage, o,
              [pushed EXCEPT !.currentNode = Nodes[matchResult.node].id],
              MatchedTurn(sid, o, matchResult))

\* lines 286-295: the user message is pushed onto the history of session
\* object o, whose contents are session, and the best node is looked for
Scored(sid, userMessage, o, session) ==
    Gated(userMessage, o,
          [session EXCEPT !.conversationHistory =
              Append(@, UserMsg(userMessage))],
          MatchedTurn(sid, o,
              FindBestNodeWithScore(userMessage,
                  [session EXCEPT !.conversationHistory =
                      Append(@, UserMsg(userMessage))])))

\* processMessage up to its first suspension (lines 280-313), or to its end
\* when the reply is local (lines 314-340); lines 281-284 get the session or
\* create it
ProcessMessage(sid, userMessage) ==
    /\ turnsStarted' = turnsStarted + 1
    /\ overlapped' = [overlapped EXCEPT ![sid] = @ \/ SomeTurnInFlight(sid)]
    /\ UNCHANGED <<env, llm, confidenceThreshold, adapter, limiter>>
    /\ IF sessions[sid] # 0
       THEN Scored(sid, userMessage, sessions[sid], heap[sessions[sid]])
       ELSE Scored(sid, userMessage, NewObj(sessions, turn), FreshSession(sid))

\* a call of processMessage that is held back while any invocation is
\* suspended in the remote call
ProcessStartSerialized(sid, userMessage) ==
    /\ \A t \in TurnIds : ~InFlight(turn[t])
    /\ turnsStarted < MaxTurns
    /\ ProcessMessage(sid, userMessage)

\* a call of processMessage, while the behaviour has calls left
ProcessStart(sid, userMessage) ==
    /\ turnsStarted < MaxTurns
    /\ ProcessMessage(sid, userMessage)

\* the record of a step of the suspended invocation tr
TurnOp(name, tr) ==
    [NoOp EXCEPT !.op = name, !.sessionId = tr.sessionId, !.node = tr.node,
                 !.score = tr.score, !.remote = TRUE]

\* an attempt of generateWithRetry returns a completion (lines 106-113), and
\* generateResponse and processMessage run on from there
AttemptSucceeds(t, raw) ==
    /\ turn[t].call.pc = "await"
    /\ UNCHANGED <<env, llm, confidenceThreshold, turnsStarted, overlapped,
                   adapter, limiter>>
    /\ Resume([turn EXCEPT ![t] = IdleTurn],
              [turn[t] EXCEPT !.call = AttemptReturned(@, raw)],
              TurnOp("attemptOk", turn[t]))

\* an attempt of generateWithRetry fails (lines 114-127)
AttemptFails(t, error) ==
    /\ turn[t].call.pc = "await"
    /\ UNCHANGED <<env, llm, confidenceThreshold, turnsStarted, overlapped,
                   adapter, limiter>>
    /\ LET tr == [turn[t] EXCEPT !.call = AttemptFailed(@, error)]
       IN  IF tr.call.pc = "backoff"
           THEN /\ turn' = [turn EXCEPT ![t] = tr]
                /\ lastOp' = TurnOp("attemptFail", tr)
                /\ UNCHANGED <<sessions, heap, completed, errorLog>>
           ELSE Resume([turn EXCEPT ![t] = IdleTurn], tr,
                       TurnOp("attemptFail", tr))

\* the backoff timer of line 125 fires: the next attempt is made
BackoffElapsed(t) ==
    /\ turn[t].call.pc = "backoff"
    /\ turn' = [turn EXCEPT ![t].call = BackoffDone(@)]
    /\ lastOp' = TurnOp("backoff", turn[t])
    /\ UNCHANGED <<env, llm, confidenceThreshold, sessions, heap,
                   turnsStarted, completed, overlapped, errorLog, adapter,
                   limiter>>

Next ==
    \/ \E sid \in SessionIds : CreateSession(sid)
    \/ \E sid \in SessionIds : ResetSession(sid)
    \/ \E sid \in SessionIds, m \in Messages : ProcessStart(sid, m)
    \/ \E t \in TurnIds, raw \in RawOutputs : AttemptSucceeds(t, raw)
    \/ \E t \in TurnIds, error \in ApiErrors : AttemptFails(t, error)
    \/ \E t \in TurnIds : BackoffElapsed(t)

Spec == Init /\ [][Next]_vars

(***************************************************************************)
(* The remote adapter on its own: generateResponse is called, as             *)
(* processMessage calls it (line 303, under the gate of line 300), with the *)
(* user message and a history that ends with it, and its attempts end one   *)
(* way or another.                                                          *)
(***************************************************************************)
Exchange == <<UserMsg(M_hello), BotMsg(R_g1, FALSE, 1)>>

\* the history before the current user message: none, one exchange, four
PriorHistories ==
    { <<>>, Exchange, Exchange \o Exchange \o Exchange \o Exchange }

AdapterUnchanged ==
    UNCHANGED <<env, llm, confidenceThreshold, sessions, heap, turn,
                turnsStarted, completed, overlapped, errorLog, lastOp,
                limiter>>

\* generateResponse(userMessage, conversationHistory)
AdapterCall(userMessage, prior) ==
    /\ IsEnabled
    /\ adapter.call.pc \in {"idle", "returned", "thrown"}
    /\ adapter' =
          [call |-> GenerateStart(IsEnabled),
           request |-> BuildRequest(userMessage,
                                    Append(prior, UserMsg(userMessage))),
           failures |-> <<>>,
           attempts |-> 1]
    /\ AdapterUnchanged

AdapterAttemptSucceeds(raw) ==
    /\ adapter.call.pc = "await"
    /\ adapter' = [adapter EXCEPT !.call = AttemptReturned(@, raw)]
    /\ AdapterUnchanged

AdapterAttemptFails(error) ==
    /\ adapter.call.pc = "await"
    /\ adapter' = [adapter EXCEPT !.call = AttemptFailed(@, error),
                                  !.failures = Append(@, error)]
    /\ AdapterUnchanged

AdapterBackoffElapsed ==
    /\ adapter.call.pc = "backoff"
    /\ adapter' = [adapter EXCEPT !.call = BackoffDone(@),
                                  !.attempts = @ + 1]
    /\ AdapterUnchanged

AdapterNext ==
    \/ \E m \in Messages, prior \in PriorHistories : AdapterCall(m, prior)
    \/ \E raw \in RawOutputs : AdapterAttemptSucceeds(raw)
    \/ \E error \in ApiErrors : AdapterAttemptFails(error)
    \/ AdapterBackoffElapsed

SpecAdapter == Init /\ [][AdapterNext]_vars

\* an attempt under way ends, one way or the other: the request of line 106
\* settles
AdapterAttemptEnds ==
    \/ \E raw \in RawOutputs : AdapterAttemptSucceeds(raw)
    \/ \E error \in ApiErrors : AdapterAttemptFails(error)

\* the adapter with every attempt ending and the timer of line 125 firing
SpecAdapterFair ==
    SpecAdapter /\ WF_vars(AdapterAttemptEnds) /\ WF_vars(AdapterBackoffElapsed)

(***************************************************************************)
(* One conversation on its own, with the remote fallback not configured     *)
(* (LLM_FALLBACK_ENABLED and GROQ_API_KEY unset): every turn takes the      *)
(* local path, and the conversation is followed over more turns than the    *)
(* interleaved behaviours of Spec are.                                      *)
(***************************************************************************)
LocalSession == "s1"

InitLocal ==
    /\ Init
    /\ ~env.fallbackEnabled /\ ~env.hasApiKey
    /\ confidenceThreshold = 3 * SCALE

LocalTurn(userMessage) ==
    /\ turnsStarted < MaxLocalTurns
    /\ ProcessMessage(LocalSession, userMessage)

LocalReset == ResetSession(LocalSession)

LocalNext ==
    \/ \E m \in LocalMessages : LocalTurn(m)
    \/ LocalReset

SpecLocal == InitLocal /\ [][LocalNext]_vars

(***************************************************************************)
(* The chat controller in front of the engine: its handlers call the       *)
(* engine, whose remote attempts end as in Spec.                           *)
(***************************************************************************)
\* req.body.sessionId: an id, or none
RequestIds == SessionIds \cup {""}

\* req.body.message: a text, or none
RequestMessages == Messages \cup {<<>>}

\* a handler's answer with an error status, the store untouched
Rejected(status, sid) ==
    /\ lastOp' = [NoOp EXCEPT !.op = status, !.sessionId = sid]
    /\ UNCHANGED <<env, llm, confidenceThreshold, sessions, heap, turn,
                   turnsStarted, completed, overlapped, errorLog, adapter,
                   limiter>>

\* a sendMessage that hands every request with an id and a text to the engine
SendMessageNoLookup(sid, message) ==
    IF sid = "" \/ message = <<>>
    THEN Rejected("badRequest", sid)
    ELSE ProcessStart(sid, message)

\* sendMessage up to the first suspension of processMessage: 400 without an
\* id or a text, 404 when getSession finds nothing, else processMessage
SendMessage(sid, message) ==
    IF sid = "" \/ message = <<>>
    THEN Rejected("badRequest", sid)
    ELSE IF sessions[sid] = 0
    THEN Rejected("notFound", sid)
    ELSE ProcessStart(sid, message)

\* the createSession handler: createSession under a new id, then
\* processMessage with 'hello' for the greeting
CreateSessionHandler(sid) ==
    /\ sessions[sid] = 0
    /\ ProcessStart(sid, GreetingMessage)

\* resetConversation: 400 without an id, else resetSession
ResetConversation(sid) ==
    IF sid = "" THEN Rejected("badRequest", sid) ELSE ResetSession(sid)

ControllerNext ==
    \/ \E sid \in RequestIds, m \in RequestMessages : SendMessage(sid, m)
    \/ \E sid \in SessionIds : CreateSessionHandler(sid)
    \/ \E sid \in RequestIds : ResetConversation(sid)
    \/ \E t \in TurnIds, raw \in RawOutputs : AttemptSucceeds(t, raw)
    \/ \E t \in TurnIds, error \in ApiErrors : AttemptFails(t, error)
    \/ \E t \in TurnIds : BackoffElapsed(t)

SpecController == Init /\ [][ControllerNext]_vars

(***************************************************************************)
(* The engine started on content it is given: the constructor takes the    *)
(* imported document as it is (lines 236-243), and the turns of one        *)
(* conversation, answered locally, run against it.  The candidate contents *)
(* differ from Nodes in the replies only, or hold no node at all, so a     *)
(* match on nodes that exist is the match on Nodes.                        *)
(***************************************************************************)
\* Nodes with the reply list of the node at position k emptied
WithoutResponses(k) ==
    [i \in 1..Len(Nodes) |->
        IF i = k THEN [Nodes[i] EXCEPT !.responses = <<>>] ELSE Nodes[i]]

\* the documents the engine may be started on
Contents ==
    {Nodes, <<>>} \cup {WithoutResponses(k) : k \in 1..Len(Nodes)}

InitContent ==
    /\ env \in [fallbackEnabled : {FALSE}, hasApiKey : {FALSE},
                groqThrows : {FALSE}, data : Contents]
    /\ llm = LLMServiceInit(env.fallbackEnabled, env.hasApiKey, env.groqThrows)
    /\ confidenceThreshold = 3 * SCALE
    /\ sessions = [s \in SessionIds |-> 0]
    /\ heap = [o \in ObjIds |-> FreeObj]
    /\ turn = [t \in TurnIds |-> IdleTurn]
    /\ turnsStarted = 0
    /\ completed = [s \in SessionIds |-> 0]
    /\ overlapped = [s \in SessionIds |-> FALSE]
    /\ errorLog = {}
    /\ lastOp = NoOp
    /\ adapter = IdleAdapter
    /\ limiter = IdleLimiter

\* processMessage against no node at all: the session is created and the
\* user message pushed (lines 281-293), then bestMatch is undefined (line
\* 345) and reading bestMatch.id (line 434) throws
ContentTurnThrows(sid, o, session) ==
    /\ sessions' = [sessions EXCEPT ![sid] = o]
    /\ heap' = Collect([heap EXCEPT ![o] = session],
                       [sessions EXCEPT ![sid] = o], turn)
    /\ lastOp' = [NoOp EXCEPT !.op = "typeError", !.sessionId = sid]
    /\ UNCHANGED <<turn, completed>>

\* lines 315-340 against the document: the local update for the matched node
\* and a reply out of its list
ContentLocal(userMessage, o, session, tr) ==
    \E response \in
          SelectResponse(env.data[tr.node],
                         LocalUpdate(session, env.data[tr.node], userMessage)) :
       Finish(turn, tr, o,
              LocalUpdate(session, env.data[tr.node], userMessage),
              response, FALSE, StartOp(tr, FALSE))

\* lines 286-340 for session object o with contents session
ContentScored(sid, userMessage, o, session) ==
    IF env.data = <<>>
    THEN ContentTurnThrows(sid, o,
             [session EXCEPT !.conversationHistory =
                 Append(@, UserMsg(userMessage))])
    ELSE ContentLocal(userMessage, o,
             [session EXCEPT !.conversationHistory =
                 Append(@, UserMsg(userMessage))],
             MatchedTurn(sid, o,
                 FindBestNodeWithScore(userMessage,
                     [session EXCEPT !.conversationHistory =
                         Append(@, UserMsg(userMessage))])))

\* a call of processMessage for the one session, remote generation off
ContentTurn(userMessage) ==
    /\ turnsStarted < MaxContentTurns
    /\ turnsStarted' = turnsStarted + 1
    /\ UNCHANGED <<env, llm, confidenceThreshold, overlapped, errorLog,
                   adapter, limiter>>
    /\ IF sessions[LocalSession] # 0
       THEN ContentScored(LocalSession, userMessage, sessions[LocalSession],
                          heap[sessions[LocalSession]])
       ELSE ContentScored(LocalSession, userMessage, NewObj(sessions, turn),
                          FreshSession(LocalSession))

ContentNext == \E m \in LocalMessages : ContentTurn(m)

SpecContent == InitContent /\ [][ContentNext]_vars

(***************************************************************************)
(* The post-processing of a completion on its own: one attempt of a        *)
(* generateResponse call returns a completion drawn from texts around the  *)
(* budget of cleanResponse.                                                *)
(***************************************************************************)
\* n times the character c
Chars(n, c) == [i \in 1..n |-> c]

\* a sentence of n characters: letters and a full stop (none for n = 0)
Sentence(n) == IF n = 0 THEN <<>> ELSE Chars(n - 1, "a") \o <<".">>

\* completion.choices[0].message.content: blanks, two sentences, a rest
\* without a terminator, blanks
LongOutput(blanks, s1, s2, rest) ==
    Chars(blanks, " ") \o Sentence(s1) \o Sentence(s2) \o Chars(rest, "b")
    \o Chars(blanks, " ")

LongOutputs ==
    {LongOutput(blanks, s1, s2, rest) :
        blanks \in {0, 1},
        s1 \in {0, 2, MaxResponseChars \div 2, MaxResponseChars - 1,
                MaxResponseChars, MaxResponseChars + 1},
        s2 \in {0, 2, MaxResponseChars \div 2, MaxResponseChars \div 2 + 1},
        rest \in {0, 1, 2, MaxResponseChars, MaxResponseChars + 1}}

\* the service is enabled and no call has been made
InitClean ==
    /\ Init
    /\ IsEnabled
    /\ confidenceThreshold = 3 * SCALE

\* generateResponse is called and suspended in its first attempt
CleanCall ==
    /\ adapter.call.pc \in {"idle", "returned", "thrown"}
    /\ adapter' = [IdleAdapter EXCEPT !.call = GenerateStart(IsEnabled),
                                      !.attempts = 1]
    /\ AdapterUnchanged

\* the attempt returns a completion whose content is raw (lines 76-83,
\* cleanResponse); the content is kept next to the call
CleanAttemptReturns(raw) ==
    /\ adapter.call.pc = "await"
    /\ adapter' = [call |-> AttemptReturned(adapter.call, raw),
                   request |-> adapter.request,
                   failures |-> adapter.failures,
                   attempts |-> adapter.attempts,
                   content |-> raw]
    /\ AdapterUnchanged

CleanNext ==
    \/ CleanCall
    \/ \E raw \in LongOutputs : CleanAttemptReturns(raw)

SpecClean == InitClean /\ [][CleanNext]_vars

(***************************************************************************)
(* qualityBasedRateLimit followed on its own: requests of the two sessions *)
(* arrive at the middleware while the clock advances.                      *)
(***************************************************************************)
LimiterUnchanged ==
    UNCHANGED <<env, llm, confidenceThreshold, sessions, heap, turn,
                turnsStarted, completed, overlapped, errorLog, adapter>>

\* record.count >= maxRequests
LimitExceeded(record) == record.count >= MaxRequests

\* !record || now - record.timestamp > windowMs
WindowOver(record, now) ==
    record.count = 0 \/ now - record.timestamp > WindowMs

\* the request is handed on by next()
LimiterPassed(sid, counts) ==
    limiter' =
       [limiter EXCEPT
           !.requestCounts = counts,
           !.passed[sid][limiter.now] = limiter.passed[sid][limiter.now] + 1]

RECURSIVE PassedIn(_, _)
\* the number of requests of session sid handed on at the instants of set us
PassedIn(sid, us) ==
    IF us = {} THEN 0
    ELSE LET u == CHOOSE x \in us : TRUE
         IN limiter.passed[sid][u] + PassedIn(sid, us \ {u})

\* the middleware for a request that carries session id sid
QualityBasedRateLimit(sid) ==
    /\ sid = "s2" => PassedIn(sid, Instants) < MaxOtherRequests
    /\ LimiterUnchanged
    /\ IF sid = ""
       THEN /\ lastOp' = [NoOp EXCEPT !.op = "next", !.sessionId = sid]
            /\ UNCHANGED limiter
       ELSE LET record == limiter.requestCounts[sid]
            IN IF WindowOver(record, limiter.now)
               THEN /\ LimiterPassed(sid,
                          [limiter.requestCounts EXCEPT
                              ![sid] = [count |-> 1,
                                        timestamp |-> limiter.now]])
                    /\ lastOp' = [NoOp EXCEPT !.op = "next",
                                              !.sessionId = sid]
               ELSE IF LimitExceeded(record)
               THEN /\ lastOp' = [NoOp EXCEPT !.op = "tooManyRequests",
                                              !.sessionId = sid]
                    /\ UNCHANGED limiter
               ELSE /\ LimiterPassed(sid,
                          [limiter.requestCounts EXCEPT
                              ![sid].count = record.count + 1])
                    /\ lastOp' = [NoOp EXCEPT !.op = "next",
                                              !.sessionId = sid]

\* Date.now() moves on between two requests
ClockAdvances ==
    /\ limiter.now + TickMs \in Instants
    /\ limiter' = [limiter EXCEPT !.now = limiter.now + TickMs]
    /\ lastOp' = [NoOp EXCEPT !.op = "clock"]
    /\ LimiterUnchanged

LimiterNext ==
    \/ \E sid \in RequestIds : QualityBasedRateLimit(sid)
    \/ ClockAdvances

SpecLimiter == InitClean /\ [][LimiterNext]_vars

(***************************************************************************)
(* Properties.                                                             *)
(***************************************************************************)
\* the object the Map holds for session id s, and its history
SessionOf(s) == heap[sessions[s]]

HistoryOf(s) == SessionOf(s).conversationHistory

\* the last step was processMessage up to its first suspension or its end
Started == lastOp.op = "start"

\* the step ended a turn: processMessage returned its reply
Returned == lastOp.returned

\* the step called generateResponse: the turn is suspended in it, or the call
\* threw before its first attempt
CalledRemote ==
    Started /\ (~lastOp.returned \/ lastOp.failed)

\* C1: in every turn the remote generator is invoked if and only if the
\* winning score is strictly below the confidence threshold and the service
\* reports enabled (flag on, client constructed); a score at or above the
\* threshold never invokes it, whatever the remote configuration.
C1_GateIffLowScoreAndEnabled ==
    Started =>
        /\ CalledRemote <=>
              (lastOp.score < confidenceThreshold /\ llm.enabled /\ llm.groq)
        /\ lastOp.score >= confidenceThreshold =>
              lastOp.returned /\ ~lastOp.usedFallback /\ ~lastOp.failed

\* a turn whose winning score is exactly the threshold, with the remote
\* service enabled, has been answered locally
C1_Witness ==
    /\ Started
    /\ lastOp.score = confidenceThreshold
    /\ llm.enabled /\ llm.groq
    /\ lastOp.returned /\ ~lastOp.usedFallback

C3_ReplyNeverEmpty ==
    Returned => lastOp.response # <<>> /\ lastOp.response # UndefinedText

RECURSIVE Alternates(_, _)
\* history h from position i on alternates user, bot, user, bot, ...
Alternates(h, i) ==
    \/ i > Len(h)
    \/ /\ h[i].role = (IF i % 2 = 1 THEN "user" ELSE "bot")
       /\ Alternates(h, i + 1)

IsPrefix(a, b) ==
    Len(a) <= Len(b) /\ \A i \in 1..Len(a) : a[i] = b[i]

\* C4: for a session processed by non-overlapping turns, after n completed
\* turns since its creation or last reset the history has exactly 2n
\* entries, alternating user then assistant, and each turn only appends: the
\* history before a turn's step is a prefix of the history after it.
C4_HistoryTwoEntriesPerTurn ==
    [][\A s \in SessionIds :
          (sessions'[s] # 0 /\ ~overlapped'[s]) =>
              /\ ~(\E t \in TurnIds :
                      InFlight(turn'[t]) /\ turn'[t].sessionId = s) =>
                    /\ Len(heap'[sessions'[s]].conversationHistory)
                          = 2 * completed'[s]
                    /\ Alternates(heap'[sessions'[s]].conversationHistory, 1)
              /\ (/\ sessions[s] # 0
                  /\ lastOp'.sessionId = s
                  /\ lastOp'.op \notin {"create", "reset"}) =>
                    IsPrefix(heap[sessions[s]].conversationHistory,
                             heap'[sessions'[s]].conversationHistory)
      ]_vars

\* C5: resetSession(id), and createSession(id) on an existing id, leave the
\* session in the fresh state (empty history, empty visited list, empty
\* context flags, empty discussed topics, current unit 'greeting') whatever
\* its prior state; resetSession twice in a row yields the same state as
\* once.
C5_ResetYieldsFreshSession ==
    [][lastOp'.op \in {"create", "reset"} =>
          LET after == heap'[sessions'[lastOp'.sessionId]]
          IN  /\ sessions'[lastOp'.sessionId] # 0
              /\ after.sessionId = lastOp'.sessionId
              /\ after.conversationHistory = <<>>
              /\ after.visitedNodes = <<>>
              /\ DOMAIN after.context = {}
              /\ after.topicsDiscussed = <<>>
              /\ after.currentNode = "greeting"
              /\ (/\ lastOp.op = "reset" /\ lastOp'.op = "reset"
                  /\ lastOp.sessionId = lastOp'.sessionId) =>
                    after = heap[sessions[lastOp.sessionId]]
      ]_vars

\* a session was reset while one of its turns, suspended in the remote call,
\* still holds the object it had before, with history in it
C5_Witness ==
    /\ lastOp.op = "reset"
    /\ HistoryOf(lastOp.sessionId) = <<>>
    /\ \E t \in TurnIds :
          /\ InFlight(turn[t])
          /\ turn[t].sessionId = lastOp.sessionId
          /\ turn[t].obj # sessions[lastOp.sessionId]
          /\ Len(heap[turn[t].obj].conversationHistory) = 3
          /\ heap[turn[t].obj].visitedNodes # <<>>

\* the backoff waits a call has made after its first n failed attempts
WaitedAfter(n) == IF n = 0 THEN 0 ELSE IF n = 1 THEN 1000 ELSE 3000

\* C6: one call to the remote adapter makes at most 3 attempts (1 initial
\* and 2 retries); a failed attempt is retried only if its failure is
\* transient, and an attempt failing with status 401 or 429 ends the call at
\* once, with no further attempt and no backoff wait, at whichever attempt
\* it occurs.
C6_AtMostThreeAttempts ==
    LET n == Len(adapter.failures)
    IN  /\ adapter.attempts <= 3
        /\ n <= adapter.attempts
        /\ \A i \in 1..n :
              i < adapter.attempts => adapter.failures[i].status \notin {401, 429}
        /\ (n > 0 /\ adapter.failures[n].status \in {401, 429}) =>
              /\ adapter.call.pc = "thrown"
              /\ adapter.attempts = n
              /\ adapter.call.waited = WaitedAfter(n - 1)
        /\ (n > 0 /\ n = adapter.attempts /\ adapter.call.pc = "thrown"
              /\ adapter.failures[n].status \notin {401, 429}) =>
              adapter.attempts = 3

\* a call whose first two attempts failed transiently has ended on a 429 at
\* its third attempt
C6_Witness ==
    /\ Len(adapter.failures) = 3
    /\ adapter.failures[1].status = 500
    /\ adapter.failures[2].status = 0
    /\ adapter.failures[3].status = 429
    /\ adapter.call.pc = "thrown"
    /\ adapter.call.waited = 3000

\* C7: after a remote call has failed with InvalidCredential (401) in some
\* turn, no later turn of any session in the same process invokes the remote
\* generator again.
C7_RemoteOffAfterInvalidCredential ==
    (Started /\ \E e \in errorLog : e.status = 401) => ~CalledRemote

\* C8: the fallback decision is not sticky: a remote failure with
\* RateLimited or Unavailable changes no persistent gate state, so any later
\* turn whose winning score is below the threshold (remote enabled) invokes
\* the remote generator again, and a turn that used the remote path does
\* not force the next turn to use it.
C8_GateNotSticky ==
    [][/\ llm' = llm
       /\ confidenceThreshold' = confidenceThreshold
       /\ (lastOp'.op = "start" /\ turnsStarted' > 1) =>
             ((~lastOp'.returned) <=>
                 (/\ lastOp'.score < confidenceThreshold
                  /\ llm.enabled /\ llm.groq))
      ]_vars

\* after a turn whose remote call failed as rate limited or unavailable, a
\* later turn with a low score is suspended in the remote call
C8_Witness ==
    /\ Started /\ ~lastOp.returned
    /\ lastOp.score < confidenceThreshold
    /\ \E e \in errorLog :
          e.message \in {"LLM rate limit exceeded", "LLM service unavailable"}

\* the messages of all histories in the heap
AllMessages ==
    UNION {{heap[o].conversationHistory[i] :
               i \in 1..Len(heap[o].conversationHistory)} : o \in ObjIds}

\* C9: if at startup the remote-fallback flag is not 'true' or the
\* credential is absent, isEnabled() is false in every reachable state, so
\* no turn ever calls the remote generator, however low the winning score.
C9_NeverRemoteWhenNotConfigured ==
    (~env.fallbackEnabled \/ ~env.hasApiKey) =>
        /\ ~(llm.enabled /\ llm.groq)
        /\ \A t \in TurnIds : ~InFlight(turn[t])
        /\ errorLog = {}
        /\ Started => lastOp.returned /\ ~lastOp.usedFallback
        /\ \A m \in AllMessages : m.role = "bot" => m.usedFallback = FALSE

\* with the flag on and no credential, a turn whose score is below the
\* threshold has been answered locally
C9_Witness ==
    /\ env.fallbackEnabled /\ ~env.hasApiKey
    /\ Started /\ lastOp.returned
    /\ lastOp.score < confidenceThreshold
    /\ ~lastOp.usedFallback

ClassifiedErrors ==
    {"LLM API key is invalid", "LLM rate limit exceeded",
     "LLM service unavailable"}

SessionBefore(sid) ==
    IF sessions[sid] # 0 THEN heap[sessions[sid]] ELSE FreshSession(sid)

\* the user message of the turn that has just ended with history h
TurnMessage(h) == h[Len(h) - 1].content

\* C11: the candidate scorer returns the unit with the strictly highest
\* final score; among units tied for the highest positive score it returns
\* the one earliest in the unit list; when no unit scores above zero it
\* returns the last unit of the list (the default) with winning score 0.
C11_HighestScoreEarliestWins ==
    [][(lastOp'.op = "start" /\ lastOp'.returned) =>
          LET sid == lastOp'.sessionId
              um == TurnMessage(heap'[sessions'[sid]].conversationHistory)
              w == lastOp'.node
              best == lastOp'.score
          IN  /\ w \in 1..Len(Nodes)
              /\ \A i \in 1..Len(Nodes) :
                    NodeScore(i, um, SessionBefore(sid)) <= best
              /\ best > 0 =>
                    /\ NodeScore(w, um, SessionBefore(sid)) = best
                    /\ \A i \in 1..(w - 1) :
                          NodeScore(i, um, SessionBefore(sid)) < best
              /\ (\A i \in 1..Len(Nodes) :
                    NodeScore(i, um, SessionBefore(sid)) <= 0) =>
                    w = Len(Nodes) /\ best = 0
      ]_vars

\* the first turn of a conversation was 'freedom', the trigger of both
\* civil_rights and human_rights, which tie, and civil_rights, the earlier
\* of the two, has won
C11_Witness ==
    /\ Started /\ lastOp.returned
    /\ sessions[lastOp.sessionId] # 0
    /\ Len(HistoryOf(lastOp.sessionId)) = 2
    /\ TurnMessage(HistoryOf(lastOp.sessionId)) = M_freedom
    /\ Nodes[lastOp.node].id = "civil_rights"
    /\ lastOp.score = NodeScore(FindNode("human_rights"), M_freedom,
                                FreshSession(lastOp.sessionId))
    /\ lastOp.score > 0

NeverVisited(session) == [session EXCEPT !.visitedNodes = <<>>]

\* C13: for a fixed message and a session state that differs only in the
\* visited list, a unit that previously won with a positive score gets a
\* strictly lower score when it is among the last 3 visited units than when
\* the visited list is empty (the score is multiplied by 0.7).
C13_RecentVisitLowersScore ==
    sessions[LocalSession] # 0 =>
       LET s == SessionOf(LocalSession)
           h == s.conversationHistory
       IN  \A k \in 2..Len(h) :
              (/\ h[k].role = "bot"
               /\ SeqIncludes(SliceLast(s.visitedNodes, 3), h[k].nodeId)
               /\ NodeScore(FindNode(h[k].nodeId), h[k - 1].content,
                            NeverVisited(s)) > 0) =>
                 LET i == FindNode(h[k].nodeId)
                     m == h[k - 1].content
                 IN  /\ NodeScore(i, m, s) < NodeScore(i, m, NeverVisited(s))
                     /\ h[k].nodeId # "default" =>
                           NodeScore(i, m, s)
                              = (7 * NodeScore(i, m, NeverVisited(s))) \div 10

\* 'hello' was sent twice in a row and the greeting node has won both
\* times, the second time with a score below the one it would get with no
\* node visited
C13_Witness ==
    /\ sessions[LocalSession] # 0
    /\ Started /\ lastOp.returned
    /\ Len(HistoryOf(LocalSession)) = 4
    /\ HistoryOf(LocalSession)[1].content = M_hello
    /\ HistoryOf(LocalSession)[3].content = M_hello
    /\ HistoryOf(LocalSession)[2].nodeId = "greeting"
    /\ HistoryOf(LocalSession)[4].nodeId = "greeting"
    /\ SessionOf(LocalSession).visitedNodes = <<"greeting">>
    /\ lastOp.score > 0
    /\ lastOp.score < NodeScore(lastOp.node, M_hello,
                                NeverVisited(SessionOf(LocalSession)))

\* the contents of the last 3 bot messages of history h before its last entry
RecentReplies(h) ==
    LET before == SelectSeq(SubSeq(h, 1, Len(h) - 1),
                            LAMBDA msg : msg.role = "bot")
        last3 == SliceLast(before, 3)
    IN  {last3[i].content : i \in 1..Len(last3)}

\* the reply texts of the node at position n
ResponsesOf(n) == {Nodes[n].responses[i] : i \in 1..Len(Nodes[n].responses)}

\* C14: the response selector returns a member of the winning unit's reply
\* list; if at least one reply of the unit is not among the last 3 assistant
\* replies in the history, the returned reply is not one of those 3; only
\* when all of the unit's replies are among them may a recent one be
\* returned.
C14_ReplyAvoidsRecentReplies ==
    (Started /\ lastOp.returned /\ ~lastOp.usedFallback
        /\ sessions[lastOp.sessionId] # 0) =>
       LET h == HistoryOf(lastOp.sessionId)
           reply == h[Len(h)].content
       IN  /\ reply = lastOp.response
           /\ reply \in ResponsesOf(lastOp.node)
           /\ (ResponsesOf(lastOp.node) \ RecentReplies(h) # {}) =>
                 reply \notin RecentReplies(h)

\* a node with two replies has won, one of its replies is among the last 3
\* bot replies, and the other one has been returned
C14_Witness ==
    /\ Started /\ lastOp.returned /\ ~lastOp.usedFallback
    /\ sessions[lastOp.sessionId] # 0
    /\ Cardinality(ResponsesOf(lastOp.node)) = 2
    /\ ResponsesOf(lastOp.node) \cap RecentReplies(HistoryOf(lastOp.sessionId))
          # {}
    /\ lastOp.response \in ResponsesOf(lastOp.node)
    /\ lastOp.response \notin RecentReplies(HistoryOf(lastOp.sessionId))

\* C15: after every local-path turn the winning unit is added at the tail of
\* the session's visited list even if it was visited before, so the unit
\* that won the most recent local turn is always among the last 3 visited
\* units that the next turn's recency penalty reads.
C15_WinnerAmongLastThreeVisited ==
    (Started /\ lastOp.returned /\ ~lastOp.usedFallback
        /\ sessions[lastOp.sessionId] # 0) =>
       SeqIncludes(SliceLast(SessionOf(lastOp.sessionId).visitedNodes, 3),
                   Nodes[lastOp.node].id)

\* C16: after a local-path turn, every topic whose unit set contains the
\* winning unit is in the session's discussed-topics set (including when the
\* unit is covered by more than one topic), and the discussed-topics
\* collection never holds the same topic identifier twice.
C16_EveryCoveringTopicDiscussedOnce ==
    /\ (Started /\ lastOp.returned /\ ~lastOp.usedFallback
           /\ sessions[lastOp.sessionId] # 0) =>
          \A i \in 1..Len(Topics) :
             SeqIncludes(Topics[i].nodes, Nodes[lastOp.node].id) =>
                SeqIncludes(SessionOf(lastOp.sessionId).topicsDiscussed,
                            Topics[i].id)
    /\ \A o \in DOMAIN heap :
          \A j, k \in 1..Len(heap[o].topicsDiscussed) :
             heap[o].topicsDiscussed[j] = heap[o].topicsDiscussed[k] => j = k

\* C17: sessions are independent: processMessage, createSession, or
\* resetSession on session A leaves every other session B's state unchanged,
\* for any interleaving of operations on different sessions.
C17_OtherSessionsUnchanged ==
    [][\A b \in SessionIds :
          b # lastOp'.sessionId =>
             /\ sessions'[b] = sessions[b]
             /\ sessions[b] # 0 => heap'[sessions[b]] = heap[sessions[b]]
             /\ completed'[b] = completed[b]
             /\ \A t \in TurnIds :
                   (InFlight(turn[t]) /\ turn[t].sessionId = b) =>
                      /\ turn'[t] = turn[t]
                      /\ heap'[turn[t].obj] = heap[turn[t].obj]
      ]_vars

\* processMessage for one session has run to its end while another session,
\* which has a turn suspended in the remote call, exists
C17_Witness ==
    /\ Started /\ lastOp.returned
    /\ \E b \in SessionIds :
          /\ b # lastOp.sessionId
          /\ sessions[b] # 0
          /\ Len(HistoryOf(b)) > 0
          /\ SomeTurnInFlight(b)

\* C18: while a turn of session A is suspended in the remote-generator call
\* (during an attempt or a backoff wait), a turn of a different session B
\* can be scored and completed; B never has to wait for A's remote call to
\* finish.
C18_OtherSessionNeverWaits ==
    \A t \in TurnIds :
       InFlight(turn[t]) =>
          \A b \in SessionIds \ {turn[t].sessionId} :
             /\ turnsStarted < MaxTurns =>
                   \A m \in Messages : ENABLED ProcessStart(b, m)
             /\ \A u \in TurnIds :
                   (InFlight(turn[u]) /\ turn[u].sessionId = b) =>
                      IF turn[u].call.pc = "await"
                      THEN \A raw \in RawOutputs :
                              ENABLED AttemptSucceeds(u, raw)
                      ELSE ENABLED BackoffElapsed(u)

\* a turn of one session has been scored and answered from start to end
\* while a turn of another session waits in the backoff of its remote call
C18_Witness ==
    /\ Started /\ lastOp.returned
    /\ completed[lastOp.sessionId] = 1
    /\ \E t \in TurnIds :
          /\ turn[t].call.pc = "backoff"
          /\ turn[t].sessionId # lastOp.sessionId
          /\ completed[turn[t].sessionId] = 0

\* the session a turn starts from, with the user message pushed (line 293)
Pushed(sid, um) ==
    [SessionBefore(sid) EXCEPT !.conversationHistory =
        Append(@, UserMsg(um))]

\* the session with the bot message of a local reply pushed (line 338)
Answered(session, response, node) ==
    [session EXCEPT !.conversationHistory =
        Append(@, BotMsg(response, FALSE, node))]

C20_SendMessageRejectsUnknownSession ==
    [][/\ \A sid \in SessionIds, m \in Messages :
          (sessions[sid] = 0 /\ SendMessage(sid, m)) =>
             /\ lastOp'.op = "notFound"
             /\ lastOp'.sessionId = sid
             /\ UNCHANGED <<sessions, heap, turn, turnsStarted, completed>>
       /\ \A sid \in SessionIds :
             (sessions[sid] = 0 /\ sessions'[sid] # 0) =>
                \/ lastOp'.op = "reset"
                \/ /\ lastOp'.op = "start"
                   /\ heap'[sessions'[sid]].conversationHistory[1].content
                         = GreetingMessage
      ]_vars

\* sendMessage has answered 'Session not found' for an id the store does not
\* hold, while the store holds a session under the other id
C20_Witness ==
    /\ lastOp.op = "notFound"
    /\ sessions[lastOp.sessionId] = 0
    /\ \E b \in SessionIds : sessions[b] # 0 /\ Len(HistoryOf(b)) > 0

\* every unit of the document has a reply, and there is a unit
ValidContent(data) ==
    /\ data # <<>>
    /\ \A i \in 1..Len(data) : Len(data[i].responses) >= 1

\* C21: conversation content containing a unit with an empty reply list (or
\* an empty unit list) is rejected at startup as a fatal error, so no turn is
\* ever processed against content that violates 'every unit has at least
\* one reply'.
C21_NoTurnOnMalformedContent ==
    turnsStarted > 0 => ValidContent(env.data)

\* the session object a step of a turn for id sid works on, as it was before
\* the step: the one the turn holds, or the one a new turn gets or creates
TurnSessionBefore(sid) ==
    IF lastOp'.op = "start" THEN SessionBefore(sid)
    ELSE heap[sessions'[sid]]

\* C22: a turn in which the remote call fails and the local winner supplies
\* the reply updates the session exactly like a turn that took the local
\* path directly: the current unit becomes the winning unit, the winning
\* unit is marked visited, every context flag it declares is set, its topic
\* is recorded and lastSentiment is stored.
C22_FailedRemoteTurnUpdatesLikeLocal ==
    [][(lastOp'.returned /\ lastOp'.failed) =>
          LET sid == lastOp'.sessionId
              node == Nodes[lastOp'.node]
              after == heap'[sessions'[sid]]
              local == LocalUpdate(TurnSessionBefore(sid), node, <<>>)
          IN  /\ after.currentNode = node.id
              /\ after.visitedNodes = local.visitedNodes
              /\ after.topicsDiscussed = local.topicsDiscussed
              /\ \A k \in 1..Len(node.context) :
                    node.context[k] \in DOMAIN after.context
              /\ "lastSentiment" \in DOMAIN after.context
      ]_vars

\* position k of text s ends a complete sentence: a terminator that no
\* terminator follows
EndsSentence(s, k) ==
    /\ IsTerminator(s[k])
    /\ k < Len(s) => ~IsTerminator(s[k + 1])

\* out is the longest prefix of complete sentences of s within the budget
LongestSentencePrefix(out, s) ==
    /\ Len(out) \in 1..MaxResponseChars
    /\ out = SubSeq(s, 1, Len(out))
    /\ EndsSentence(s, Len(out))
    /\ \A k \in (Len(out) + 1)..MaxResponseChars : ~EndsSentence(s, k)

\* out is a hard truncation of s with an ellipsis marker, within the budget
HardTruncated(out, s) ==
    /\ Len(out) \in 3..MaxResponseChars
    /\ SubSeq(out, 1, Len(out) - 3) = SubSeq(s, 1, Len(out) - 3)
    /\ SubSeq(out, Len(out) - 2, Len(out)) = <<".", ".", ".">>

\* C23: the post-processed remote reply never exceeds the 500-character
\* budget: when the trimmed raw output is longer than 500 characters the
\* result is the longest prefix of complete sentences that fits in 500
\* characters, or, when no complete sentence fits, a hard-truncated text
\* with an ellipsis marker that still fits the budget; output of 500
\* characters or fewer is returned unchanged apart from trimming.
C23_ReplyWithinBudget ==
    adapter.call.pc = "returned" =>
       LET out == adapter.call.text
           cleaned == Trim(adapter.content)
       IN  /\ Len(out) <= MaxResponseChars
           /\ IF Len(cleaned) <= MaxResponseChars THEN out = cleaned
              ELSE IF \E k \in 1..MaxResponseChars : EndsSentence(cleaned, k)
              THEN LongestSentencePrefix(out, cleaned)
              ELSE HardTruncated(out, cleaned)

\* the session of a conversation answered locally after the first n
\* exchanges of its history h: the local updates of lines 315-323 in order
RECURSIVE Replay(_, _)
Replay(h, n) ==
    IF n = 0 THEN FreshSession(LocalSession)
    ELSE [LocalUpdate(Replay(h, n - 1), Nodes[FindNode(h[2 * n].nodeId)],
                      h[2 * n - 1].content)
            EXCEPT !.conversationHistory = SubSeq(h, 1, 2 * n)]

\* the score of the winner of exchange k of history h, as it was computed
ScoreAt(h, k) ==
    NodeScore(FindNode(h[2 * k].nodeId), h[2 * k - 1].content,
              Replay(h, k - 1))

\* exchanges k to k + 3 of history h have the same message and the same
\* winner
SameFourFrom(h, k) ==
    \A j \in 1..3 :
       /\ h[2 * (k + j) - 1].content = h[2 * k - 1].content
       /\ h[2 * (k + j)].nodeId = h[2 * k].nodeId

\* the starts of the runs of four such exchanges in history h
FourRuns(h) == {k \in 1..(Len(h) \div 2 - 3) : SameFourFrom(h, k)}

C25_BackoffBoundedAndCallEnds ==
    /\ [](/\ adapter.call.waited <= 3000
          /\ adapter.call.pc = "backoff" =>
                /\ Len(adapter.failures) \in {1, 2}
                /\ adapter.attempts = Len(adapter.failures)
                /\ adapter.call.waited =
                      IF Len(adapter.failures) = 1 THEN 1000 ELSE 1000 + 2000
          /\ adapter.call.pc \in {"await", "returned", "thrown"} =>
                adapter.call.waited = WaitedAfter(adapter.attempts - 1))
    /\ (adapter.call.pc = "await")
          ~> (adapter.call.pc \in {"returned", "thrown"})

\* a call has failed after three transient failures, having waited 1 s and
\* 2 s and nothing after the third
C25_Witness ==
    /\ Len(adapter.failures) = 3
    /\ \A i \in 1..3 : adapter.failures[i].status \notin {401, 429}
    /\ adapter.attempts = 3
    /\ adapter.call.pc = "thrown"
    /\ adapter.call.waited = 3000

\* the request generateResponse would send for the user text um after the
\* history prior: the persona instruction, the last 8 entries, the text
RequestFor(um, prior) ==
    <<[role |-> "system", content |-> SystemPrompt]>>
    \o HistoryContext(SliceLast(prior, 8))
    \o <<[role |-> "user", content |-> um]>>

\* C26: the generation request sent to the remote generator consists of the
\* persona instruction, then at most the last 8 history entries, then the
\* current user text, and the current user text of the turn appears in the
\* request exactly once.
C26_RequestHoldsUserTextOnce ==
    adapter.attempts >= 1 =>
       \E prior \in PriorHistories :
          adapter.request =
             RequestFor(adapter.request[Len(adapter.request)].content, prior)

\* the instants of set Instants that lie in the interval [u, u + WindowMs]
Within(u) == {v \in Instants : u <= v /\ v - u <= WindowMs}

\* C27: of one session at most 20 requests pass the rate limiter in any
\* interval of 60 seconds; a request answered with 429 leaves the quota as it
\* was; and a request of one session leaves the record of every other
\* session as it was
C27_TwentyPerMinutePerSession ==
    /\ [](\A s \in SessionIds : \A u \in Instants :
             PassedIn(s, Within(u)) <= MaxRequests)
    /\ [][lastOp'.op = "tooManyRequests"
             => limiter'.requestCounts = limiter.requestCounts]_vars
    /\ [][\A s \in SessionIds :
             lastOp'.op \in {"next", "tooManyRequests"}
                /\ lastOp'.sessionId # s
             => limiter'.requestCounts[s] = limiter.requestCounts[s]]_vars

\* turn t was suspended in the remote call when its session was reset: the
\* object it holds is no longer the one the Map holds
SuspendedAcrossReset(t) ==
    /\ InFlight(turn[t])
    /\ sessions[turn[t].sessionId] # 0
    /\ turn[t].obj # sessions[turn[t].sessionId]

\* C28: after resetSession(id), getHistory(id) holds no message appended
\* before the reset: when a turn that was suspended across the reset
\* completes, the history of the session is what it was before that step,
\* with at most the reply of the turn appended
C28_NoMessageFromBeforeReset ==
    [][\A t \in TurnIds :
          (SuspendedAcrossReset(t) /\ ~InFlight(turn'[t])) =>
              LET s == turn[t].sessionId
              IN  /\ sessions'[s] # 0
                  /\ IsPrefix(HistoryOf(s),
                              heap'[sessions'[s]].conversationHistory)
                  /\ Len(heap'[sessions'[s]].conversationHistory)
                        <= Len(HistoryOf(s)) + 1
      ]_vars

\* the last step suspended a turn in the remote call
SuspendedNow == lastOp'.op = "start" /\ lastOp'.remote /\ ~lastOp'.returned

\* the last step ended a turn with the reply of the remote generator
RemoteAnswered == lastOp'.returned /\ lastOp'.usedFallback

\* C29: a turn answered by the remote generator changes nothing of its
\* session but the history: the step that suspends it appends the user
\* entry, the step that ends it appends the assistant entry with nodeId
\* 'llm-fallback' and usedFallback = TRUE, and currentNode, visitedNodes,
\* context (lastSentiment included) and topicsDiscussed stay as they were
C29_RemoteAnswerChangesOnlyHistory ==
    [][/\ SuspendedNow =>
             \E t \in TurnIds, m \in Messages :
                /\ turn'[t] # turn[t]
                /\ heap'[turn'[t].obj] =
                      [SessionBefore(lastOp'.sessionId)
                          EXCEPT !.conversationHistory =
                                     Append(@, UserMsg(m))]
       /\ RemoteAnswered =>
             LET o == sessions'[lastOp'.sessionId]
             IN  heap'[o] =
                    [heap[o] EXCEPT !.conversationHistory =
                        Append(@, [role |-> "bot",
                                   content |-> lastOp'.response,
                                   nodeId |-> "llm-fallback",
                                   usedFallback |-> TRUE])]
      ]_vars

\* a second turn of a session was answered by the remote generator after a
\* first one had marked a unit visited and set context flags
C29_Witness ==
    /\ lastOp.returned /\ lastOp.usedFallback
    /\ Len(HistoryOf(lastOp.sessionId)) = 4
    /\ Len(SessionOf(lastOp.sessionId).visitedNodes) = 1
    /\ "lastSentiment" \in DOMAIN SessionOf(lastOp.sessionId).context

\* the session objects in use: those of the Map and those held by a turn
SessionObjects == {heap[o] : o \in Referenced(sessions, turn)}

\* C30: in every session state visitedNodes holds no id twice; when it is not
\* empty currentNode is one of its elements, and when it is empty
\* currentNode is 'greeting'
C30_VisitedDistinctAndHoldsCurrent ==
    \A session \in SessionObjects :
       LET visited == session.visitedNodes
       IN  /\ \A i, j \in 1..Len(visited) :
                 visited[i] = visited[j] => i = j
           /\ visited # <<>> => SeqIncludes(visited, session.currentNode)
           /\ visited = <<>> => session.currentNode = "greeting"

\* a session has come back to the unit it visited first after visiting
\* another one
C30_Witness ==
    \E session \in SessionObjects :
       /\ Len(session.visitedNodes) >= 2
       /\ session.currentNode = session.visitedNodes[1]
       /\ Len(session.conversationHistory) >= 6

====
